---- MODULE Spec2Model ----
(***************************************************************************)
(* A model of the software rasterizer of kodo-pp/cuboid: the integer       *)
(* geometry of src/geometry.rs (Line, Triangle, HorizontalSegment,         *)
(* GluedTriangle), the DepthBuffer, the Rasterizer and the frustum clipper *)
(* of src/render.rs.                                                       *)
(*                                                                         *)
(* Conventions.                                                            *)
(*  - An i32 is an integer of I32Min..I32Max.  The operators I32Add,       *)
(*    I32Sub, I32Mul compute the two's-complement (wrapping) result, which *)
(*    is what a build without overflow checks yields; AddFits, SubFits,    *)
(*    MulFits say whether the exact result fits, and a build with overflow *)
(*    checks panics when it does not.  The variable overflow_checks is the *)
(*    build's choice.                                                      *)
(*  - For a function F of the source, F(args) is the value it returns when *)
(*    it does not panic and F_st(args) is "ok", "ovf" (an i32 overflow     *)
(*    happened: a panic with overflow checks, the wrapped value without)   *)
(*    or "panic" (a panic in every build).                                 *)
(***************************************************************************)
EXTENDS Integers, Sequences, FiniteSets, TLC

(***************************************************************************)
(* Bounds of the model.                                                    *)
(***************************************************************************)
MaxCoord == 2

MaxRastCoord == 1

RastWidth == 3

RastHeight == 3

MaxFills == 2

\* The shared-edge triangles have their vertices in 0 .. MaxSeamX by 0 .. MaxSeamY
MaxSeamX == 2

MaxSeamY == 4

\* Rasterizer::set is called at most this many times
MaxSets == 2

\* The DepthBuffer under test
DepthWidth == 2

DepthHeight == 2

\* The finite depths offered are 0 .. MaxDepth
MaxDepth == 2

\* DepthBuffer::try_update is called at most this many times
MaxUpdates == 2

\* Screen triangles of the coordinate recovery have coordinates 0 .. MaxAdapterCoord
MaxAdapterCoord == 2

\* The triangle being drawn lies at a depth 1 .. MaxAdapterDepth
MaxAdapterDepth == 2

\* At most this many pixels are offered through a DepthBufferProxy
MaxOffers == 2

\* The lines intersected pass through points with coordinates in
\* 0 .. MaxIsectCoord, or far away
MaxIsectCoord == 1

\* Camera-local points have x in -1 .. MaxClipX and y, z in 0 .. MaxClipYZ,
\* in thousandths
MaxClipX == 3

MaxClipYZ == 1

\* A coordinate large enough for the products of Line::from_points to leave i32.
BigCoord == 2^16

(***************************************************************************)
(* i32 arithmetic.                                                         *)
(***************************************************************************)
I32Max == 2147483647

I32Min == -I32Max - 1

IsI32(n) == n >= I32Min /\ n <= I32Max

B16 == 2^16

B8 == 2^8

\* The signed value of the 32-bit pattern with unsigned halves h (high) and l (low).
FromHL(h, l) == IF h >= B16 \div 2 THEN (h - B16) * B16 + l ELSE h * B16 + l

AddFits(a, b) == IF b >= 0 THEN a <= I32Max - b ELSE a >= I32Min - b

SubFits(a, b) == IF b >= 0 THEN a >= I32Min + b ELSE a <= I32Max + b

\* |n| for n # I32Min
Mag(n) == IF n < 0 THEN -n ELSE n

MulFits(a, b) ==
    IF a = 0 \/ b = 0 THEN TRUE
    ELSE IF a = I32Min THEN b = 1
    ELSE IF b = I32Min THEN a = 1
    ELSE LET n == Mag(a)
             m == Mag(b)
         IN  \/ n <= I32Max \div m
             \/ /\ (a < 0) # (b < 0)          \* the product may be exactly -2^31
                /\ n = (I32Max \div m) + 1
                /\ I32Max % m = m - 1

I32Add(a, b) ==
    IF AddFits(a, b) THEN a + b
    ELSE LET l == (a % B16) + (b % B16)
             h == ((a \div B16) + (b \div B16) + (l \div B16)) % B16
         IN  FromHL(h, l % B16)

I32Sub(a, b) ==
    IF SubFits(a, b) THEN a - b
    ELSE LET l == (a % B16) - (b % B16)
             h == ((a \div B16) - (b \div B16) + (l \div B16)) % B16
         IN  FromHL(h, l % B16)

\* The 32-bit product of two 16-bit halves x, y \in 0..2^16-1, as <<high, low>>
\* 16-bit halves (the high half reduced mod 2^16).
Mul16(x, y) ==
    LET x1 == x \div B8
        x0 == x % B8
        y1 == y \div B8
        y0 == y % B8
        mid == x1 * y0 + x0 * y1
        t == x0 * y0 + (mid % B8) * B8
        hh == x1 * y1 + (mid \div B8) + (t \div B16)
    IN  <<hh % B16, t % B16>>

I32Mul(a, b) ==
    IF MulFits(a, b) THEN a * b
    ELSE LET al == a % B16
             ah == a \div B16
             bl == b % B16
             bh == b \div B16
             m == Mul16(al, bl)
             h == (m[1] + ((ah * bl) % B16) + ((al * bh) % B16)) % B16
         IN  FromHL(h, m[2])

\* Rust's `/` on i32 truncates toward zero.  It panics, in every build, when the
\* divisor is 0 and when I32Min is divided by -1.
DivPanics(a, b) == b = 0 \/ (a = I32Min /\ b = -1)

I32Div(a, b) ==
    IF b > 0 THEN
        LET q == a \div b IN IF a < 0 /\ a % b # 0 THEN q + 1 ELSE q
    ELSE IF b = I32Min THEN (IF a = I32Min THEN 1 ELSE 0)
    ELSE LET nb == -b
             q == a \div nb
             t == IF a < 0 /\ a % nb # 0 THEN q + 1 ELSE q
         IN  -t

\* The join of two statuses: "panic" over "ovf" over "ok".
StJoin(s, t) ==
    IF s = "panic" \/ t = "panic" THEN "panic"
    ELSE IF s = "ovf" \/ t = "ovf" THEN "ovf"
    ELSE "ok"

OvfIf(cond) == IF cond THEN "ovf" ELSE "ok"

\* F(v), with v evaluated once: x \in {v} binds x to the value of v.
Bind(v, F(_)) == CHOOSE r \in {F(x) : x \in {v}} : TRUE

(***************************************************************************)
(* Exact (64-bit wide) products, as <<top, mid, low>> with value            *)
(* top * 2^32 + mid * 2^16 + low and mid, low \in 0..2^16-1: the i64        *)
(* arithmetic of PartialEq for Line, and the exact geometry the properties  *)
(* are stated with.                                                         *)
(***************************************************************************)
WideMul(a, b) ==
    LET al == a % B16
        ah == a \div B16
        bl == b % B16
        bh == b \div B16
        m == Mul16(al, bl)
        t1 == ah * bl
        t2 == al * bh
        s1 == (t1 % B16) + (t2 % B16) + m[1]
    IN  <<ah * bh + (t1 \div B16) + (t2 \div B16) + (s1 \div B16), s1 % B16, m[2]>>

WideSub(u, v) ==
    LET l == u[3] - v[3]
        m == u[2] - v[2] + (l \div B16)
    IN  <<u[1] - v[1] + (m \div B16), m % B16, l % B16>>

WideSign(u) == IF u[1] < 0 THEN -1 ELSE IF u = <<0, 0, 0>> THEN 0 ELSE 1

(***************************************************************************)
(* Option<T>                                                               *)
(***************************************************************************)
None == [some |-> FALSE]

Some(v) == [some |-> TRUE, val |-> v]

\* What a call yields in the build at hand: a panic, or the returned value.
Panicked == [panicked |-> TRUE]

Returned(v) == [panicked |-> FALSE, ret |-> v]

Outcome(st, v, checks) ==
    IF st = "panic" \/ (st = "ovf" /\ checks) THEN Panicked ELSE Returned(v)

NotCalled == [called |-> FALSE]

(***************************************************************************)
(* geometry.rs: Point, Line                                                *)
(***************************************************************************)
Point(x, y) == [x |-> x, y |-> y]

Line(a, b, c) == [a |-> a, b |-> b, c |-> c]

Line_from_points(p, q) ==
    IF p.x = q.x THEN Line(1, 0, I32Sub(0, p.x))
    ELSE Line(I32Sub(p.y, q.y), I32Sub(q.x, p.x),
              I32Sub(I32Mul(p.x, q.y), I32Mul(p.y, q.x)))

Line_from_points_st(p, q) ==
    IF p = q THEN "panic"
    ELSE IF p.x = q.x THEN OvfIf(~SubFits(0, p.x))
    ELSE OvfIf(~(/\ SubFits(p.y, q.y)
                 /\ SubFits(q.x, p.x)
                 /\ MulFits(p.x, q.y)
                 /\ MulFits(p.y, q.x)
                 /\ SubFits(I32Mul(p.x, q.y), I32Mul(p.y, q.x))))

Line_horizontal(y) == Line(0, 1, I32Sub(0, y))

Line_horizontal_st(y) == OvfIf(~SubFits(0, y))

\* a * b - c * d in i32, and whether it overflows
MulSub(a, b, c, d) == I32Sub(I32Mul(a, b), I32Mul(c, d))

MulSubFits(a, b, c, d) ==
    MulFits(a, b) /\ MulFits(c, d) /\ SubFits(I32Mul(a, b), I32Mul(c, d))

Line_intersect(self, other) ==
    LET x_numerator == MulSub(self.c, other.b, self.b, other.c)
        y_numerator == MulSub(self.a, other.c, self.c, other.a)
        denominator == MulSub(self.b, other.a, self.a, other.b)
    IN  Point(I32Div(x_numerator, denominator), I32Div(y_numerator, denominator))

Line_intersect_st(self, other) ==
    LET x_numerator == MulSub(self.c, other.b, self.b, other.c)
        y_numerator == MulSub(self.a, other.c, self.c, other.a)
        denominator == MulSub(self.b, other.a, self.a, other.b)
    IN  IF DivPanics(x_numerator, denominator) \/ DivPanics(y_numerator, denominator)
        THEN "panic"
        ELSE OvfIf(~(/\ MulSubFits(self.c, other.b, self.b, other.c)
                     /\ MulSubFits(self.a, other.c, self.c, other.a)
                     /\ MulSubFits(self.b, other.a, self.a, other.b)))

Line_contains_point(self, point) ==
    I32Add(I32Add(I32Mul(self.a, point.x), I32Mul(self.b, point.y)), self.c) = 0

Line_contains_point_st(self, point) ==
    OvfIf(~(/\ MulFits(self.a, point.x)
            /\ MulFits(self.b, point.y)
            /\ AddFits(I32Mul(self.a, point.x), I32Mul(self.b, point.y))
            /\ AddFits(I32Add(I32Mul(self.a, point.x), I32Mul(self.b, point.y)), self.c)))

\* gcd::Gcd on u32 (gcd(0, 0) = 0)
RECURSIVE Gcd(_, _)
Gcd(m, n) == IF n = 0 THEN m ELSE Gcd(n, m % n)

\* i32::abs: overflows on I32Min (wrapping to I32Min)
I32Abs(n) == IF n < 0 THEN I32Sub(0, n) ELSE n

\* PartialEq for Line
Line_eq(self, other) ==
    LET ga == Gcd(I32Abs(self.a), I32Abs(other.a))
        p == I32Div(self.a, ga)
        q == I32Div(other.a, ga)
        first == WideMul(self.a, q) = WideMul(other.a, p)
        second == WideMul(self.b, q) = WideMul(other.b, p)
        third == WideMul(self.c, q) = WideMul(other.c, p)
    IN  first /\ second /\ third

Line_eq_st(self, other) ==
    IF self.a = I32Min \/ other.a = I32Min THEN "ovf"
    ELSE IF Gcd(I32Abs(self.a), I32Abs(other.a)) = 0 THEN "panic"
    ELSE "ok"

(***************************************************************************)
(* geometry.rs: LiesOn for Point, BasicTriangle<Point>                     *)
(***************************************************************************)
Point_lies_on(self, a, b) == Line_contains_point(Line_from_points(a, b), self)

Point_lies_on_st(self, a, b) ==
    StJoin(Line_from_points_st(a, b),
           Line_contains_point_st(Line_from_points(a, b), self))

Triangle(a, b, c) == [a |-> a, b |-> b, c |-> c]

Triangle_try_new(a, b, c) ==
    IF a = b \/ b = c \/ a = c THEN None
    ELSE IF Point_lies_on(a, b, c) \/ Point_lies_on(b, a, c) \/ Point_lies_on(c, a, b)
         THEN None
    ELSE Some(Triangle(a, b, c))

\* `||` evaluates its right operand only when the left one is false
Triangle_try_new_st(a, b, c) ==
    IF a = b \/ b = c \/ a = c THEN "ok"
    ELSE StJoin(Point_lies_on_st(a, b, c),
           IF Point_lies_on(a, b, c) THEN "ok"
           ELSE StJoin(Point_lies_on_st(b, a, c),
                  IF Point_lies_on(b, a, c) THEN "ok"
                  ELSE Point_lies_on_st(c, a, b)))

\* BasicTriangle::new: try_new(..).expect(..)
Triangle_new(a, b, c) == Triangle_try_new(a, b, c).val

Triangle_new_st(a, b, c) ==
    IF Triangle_try_new(a, b, c).some THEN Triangle_try_new_st(a, b, c)
    ELSE "panic"

(***************************************************************************)
(* geometry.rs: Triangular::sort_points, HorizontalSegment, GluedTriangle  *)
(***************************************************************************)
\* Three conditional swaps on the key y; the points as <<a, b, c>>.
ysort(tri) ==
    LET s1 == IF tri.a.y > tri.b.y THEN <<tri.b, tri.a, tri.c>> ELSE <<tri.a, tri.b, tri.c>>
        s2 == IF s1[2].y > s1[3].y THEN <<s1[1], s1[3], s1[2]>> ELSE s1
        s3 == IF s2[1].y > s2[2].y THEN <<s2[2], s2[1], s2[3]>> ELSE s2
    IN  s3

\* width is a u32 in the source; it is kept here as the i32 with the same bits
\* (`as u32` and `as i32` do not change the bits).
HorizontalSegment_from_points(left, right) ==
    LET l == IF left.x > right.x THEN right ELSE left
        r == IF left.x > right.x THEN left ELSE right
    IN  [left |-> l, width |-> I32Sub(r.x, l.x)]

\* assert_eq!(left.y, right.y)
HorizontalSegment_from_points_st(left, right) ==
    IF left.y # right.y THEN "panic"
    ELSE LET l == IF left.x > right.x THEN right ELSE left
             r == IF left.x > right.x THEN left ELSE right
         IN  OvfIf(~SubFits(r.x, l.x))

HorizontalSegment_left(self) == self.left

HorizontalSegment_right(self) == Point(I32Add(self.left.x, self.width), self.left.y)

HorizontalSegment_right_st(self) == OvfIf(~AddFits(self.left.x, self.width))

HorizontalSegment_y(self) == self.left.y

HorizontalSegment_as_line(self) == Line_horizontal(HorizontalSegment_y(self))

GluedTriangle_try_new(horizontal_segment, free_point) ==
    IF Line_contains_point(HorizontalSegment_as_line(horizontal_segment), free_point)
    THEN None
    ELSE Some([horizontal_segment |-> horizontal_segment, free_point |-> free_point])

GluedTriangle_try_new_st(horizontal_segment, free_point) ==
    StJoin(Line_horizontal_st(HorizontalSegment_y(horizontal_segment)),
           Line_contains_point_st(HorizontalSegment_as_line(horizontal_segment), free_point))

(***************************************************************************)
(* render.rs: Rasterizer                                                   *)
(***************************************************************************)
Max(a, b) == IF a > b THEN a ELSE b

Min(a, b) == IF a < b THEN a ELSE b

\* Whether a step with status st ends the call with a panic in this build.
Stops(st, checks) == st = "panic" \/ (st = "ovf" /\ checks)

\* One row of fill_glued_triangle: the two intersections, then the pixels
\* max(left_isect.x, 0) ..= min(right_isect.x, width - 1) offered left to right.
GluedRow_st(left_line, right_line, y) ==
    StJoin(Line_horizontal_st(y),
           StJoin(Line_intersect_st(Line_horizontal(y), left_line),
                  Line_intersect_st(Line_horizontal(y), right_line)))

\* A row whose right end is clamped to width instead of width - 1
GluedRow_clamped_to_width(left_line, right_line, y, width) ==
    LET horizontal_line == Line_horizontal(y)
        left_isect == Line_intersect(horizontal_line, left_line)
        right_isect == Line_intersect(horizontal_line, right_line)
        first == Max(left_isect.x, 0)
        last == Min(right_isect.x, width)
    IN  [i \in 1 .. (IF last >= first THEN last - first + 1 ELSE 0) |->
            Point(first + i - 1, y)]

GluedRow(left_line, right_line, y, width) ==
    LET left_isect == Line_intersect(Line_horizontal(y), left_line)
        right_isect == Line_intersect(Line_horizontal(y), right_line)
        lo == Max(left_isect.x, 0)
        hi == Min(right_isect.x, width - 1)
    IN  [i \in 1 .. Max(hi - lo + 1, 0) |-> Point(lo + i - 1, y)]

\* The rows y ..= ymax in order; a row that panics ends the call, the pixels of
\* the rows before it having been offered.
RECURSIVE GluedRows(_, _, _, _, _, _)
GluedRows(left_line, right_line, y, ymax, width, checks) ==
    IF y > ymax THEN [panicked |-> FALSE, offers |-> <<>>]
    ELSE IF Stops(GluedRow_st(left_line, right_line, y), checks)
         THEN [panicked |-> TRUE, offers |-> <<>>]
    ELSE Bind(GluedRows(left_line, right_line, y + 1, ymax, width, checks),
              LAMBDA rest :
                  [panicked |-> rest.panicked,
                   offers |-> GluedRow(left_line, right_line, y, width) \o rest.offers])

\* The pixels offered to color_func, in order, and whether the call panicked.
Rasterizer_fill_glued_triangle(glued_tri, width, height, checks) ==
    LET seg == glued_tri.horizontal_segment
        free == glued_tri.free_point
        y0 == HorizontalSegment_y(seg)
        min == IF y0 > free.y THEN free.y ELSE y0
        max == IF y0 > free.y THEN y0 ELSE free.y
        right == HorizontalSegment_right(seg)
        st == StJoin(Line_from_points_st(HorizontalSegment_left(seg), free),
                     StJoin(HorizontalSegment_right_st(seg),
                            Line_from_points_st(right, free)))
    IN  IF Stops(st, checks) THEN [panicked |-> TRUE, offers |-> <<>>]
        ELSE Bind(Line_from_points(HorizontalSegment_left(seg), free),
                  LAMBDA left_line :
             Bind(Line_from_points(right, free),
                  LAMBDA right_line :
                      GluedRows(left_line, right_line,
                                Max(min, 0), Min(max, height - 1), width, checks)))

\* An optional glued half: try_new, then fill when it is Some.
FillHalf(horizontal_segment, free_point, width, height, checks) ==
    IF Stops(GluedTriangle_try_new_st(horizontal_segment, free_point), checks)
    THEN [panicked |-> TRUE, offers |-> <<>>]
    ELSE Bind(GluedTriangle_try_new(horizontal_segment, free_point),
              LAMBDA glued :
                  IF glued.some
                  THEN Rasterizer_fill_glued_triangle(glued.val, width, height, checks)
                  ELSE [panicked |-> FALSE, offers |-> <<>>])

\* The two halves in turn: the bottom one is not reached when the top one panics.
FillHalves(horizontal_segment, a, c, width, height, checks) ==
    Bind(FillHalf(horizontal_segment, a, width, height, checks),
         LAMBDA top :
             IF top.panicked THEN top
             ELSE Bind(FillHalf(horizontal_segment, c, width, height, checks),
                       LAMBDA bottom :
                           [panicked |-> bottom.panicked,
                            offers |-> top.offers \o bottom.offers]))

Rasterizer_fill_triangle(tri, width, height, checks) ==
    LET s == ysort(tri)
        a == s[1]
        b == s[2]
        c == s[3]
        line_hb == Line_horizontal(b.y)
        line_ac == Line_from_points(a, c)
        st1 == StJoin(Line_horizontal_st(b.y),
                      StJoin(Line_from_points_st(a, c), Line_intersect_st(line_hb, line_ac)))
    IN  IF Stops(st1, checks) THEN [panicked |-> TRUE, offers |-> <<>>]
        ELSE Bind(Line_intersect(line_hb, line_ac),
                  LAMBDA split_point :
                      IF Stops(HorizontalSegment_from_points_st(b, split_point), checks)
                      THEN [panicked |-> TRUE, offers |-> <<>>]
                      ELSE Bind(HorizontalSegment_from_points(b, split_point),
                                LAMBDA horizontal_segment :
                                    FillHalves(horizontal_segment, a, c,
                                               width, height, checks)))

\* The byte index of a component of pixel (x, y), in u32 arithmetic.
Rasterizer_index_at(width, x, y, component) == (width * y + x) * 4 + component

\* Rasterizer::set writes the bytes b, g, r of the pixel; the byte with
\* component 3 is left alone.  Indexing the slice out of its length panics.
Rasterizer_set_st(buf, width, x, y) ==
    IF \E component \in 0 .. 2 :
           Rasterizer_index_at(width, x, y, component) >= Len(buf)
    THEN "panic" ELSE "ok"

Rasterizer_set(buf, width, x, y, value) ==
    [i \in 1 .. Len(buf) |->
        IF i - 1 = Rasterizer_index_at(width, x, y, 0) THEN value.b
        ELSE IF i - 1 = Rasterizer_index_at(width, x, y, 1) THEN value.g
        ELSE IF i - 1 = Rasterizer_index_at(width, x, y, 2) THEN value.r
        ELSE buf[i]]

RGB_new(r, g, b) == [b |-> b, g |-> g, r |-> r]

\* The buffer after set(x, y, value) has been called for each of the pixels in
\* order: each byte is as its last writer left it.
SetAll(buf, width, pixels, value) ==
    [i \in 1 .. Len(buf) |->
        LET writers == {k \in 1 .. Len(pixels) :
                           \E component \in 0 .. 2 :
                               Rasterizer_index_at(width, pixels[k].x, pixels[k].y,
                                                   component) = i - 1}
        IN  IF writers = {} THEN buf[i]
            ELSE LET k == CHOOSE w \in writers : \A v \in writers : v <= w
                 IN  Rasterizer_set(buf, width, pixels[k].x, pixels[k].y, value)[i]]

(***************************************************************************)
(* State.                                                                  *)
(*   overflow_checks  whether the build panics on i32 overflow             *)
(*   tri_args         the points a, b, c handed to the Triangle            *)
(*                    constructors                                         *)
(*   try_new_out      what Triangle::try_new(a, b, c) yielded              *)
(*   new_out          what Triangle::new(a, b, c) yielded                  *)
(*   line_args        the points p, q of the Line comparison               *)
(*   eq_out           what from_points(p, q) == from_points(q, p) yielded  *)
(*   rast_tri         the vertices of the screen triangle being drawn      *)
(*   fills            the Rasterizer::fill_triangle calls made so far:     *)
(*                    the Triangle handed in and the result, which is the  *)
(*                    pixels offered to color_func in order and whether    *)
(*                    the call panicked                                    *)
(*   data             the Rasterizer's pixel buffer, 4 bytes per pixel     *)
(*   adjacent         two screen triangles that share an edge              *)
(*   sets             the Rasterizer::set calls made so far: x, y, the     *)
(*                    buffer before the call and whether it panicked       *)
(*   depth_buffer     the DepthBuffer's cells, row after row               *)
(*   offered          per cell, the values offered at its coordinate       *)
(*   last_update      the last DepthBuffer::try_update call: x, y, value,  *)
(*                    the cells before it and what it returned             *)
(*   n_updates        the number of try_update calls made                  *)
(*   clip_tri         the camera-local triangle handed to the clipper      *)
(*   clip_out         what Renderer::split_if_necessary yielded for it,    *)
(*                    and whether it ended in an unreachable!() arm        *)
(*   cam_point        a camera-local point                                 *)
(*   can_translate_out  what Camera::can_translate_point yielded for it    *)
(*   translate_out    what Camera::translate yielded for it                *)
(*   isect_lines      the two lines handed to Line::intersect              *)
(*   isect_out        what Line::intersect yielded for them                *)
(*   proxy_offers     the pixels offered through DepthBufferProxy so far:  *)
(*                    point, the inner filler's depth and color for it,    *)
(*                    and what DepthBufferProxy::color_at returned         *)
(*   adapter          the CoordsTranslationAdapter of a triangle draw      *)
(*   untranslate_out  the point handed to bilinear_untranslate and what    *)
(*                    it yielded                                           *)
(***************************************************************************)
VARIABLES
    overflow_checks,
    tri_args,
    try_new_out,
    new_out,
    line_args,
    eq_out,
    rast_tri,
    fills,
    data,
    adjacent,
    sets,
    depth_buffer,
    offered,
    last_update,
    n_updates,
    clip_tri,
    clip_out,
    cam_point,
    can_translate_out,
    translate_out,
    isect_lines,
    isect_out,
    proxy_offers,
    adapter,
    untranslate_out

triVars == <<tri_args, try_new_out, new_out>>

lineVars == <<line_args, eq_out>>

rastVars == <<rast_tri, fills, data, adjacent, sets>>

depthVars == <<depth_buffer, offered, last_update, n_updates>>

clipVars == <<clip_tri, clip_out>>

camVars == <<cam_point, can_translate_out, translate_out>>

isectVars == <<isect_lines, isect_out>>

proxyVars == <<proxy_offers>>

adapterVars == <<adapter, untranslate_out>>

vars == <<overflow_checks, triVars, lineVars, rastVars, depthVars, clipVars,
          camVars, isectVars, proxyVars, adapterVars>>

\* The integer points the constructors are tried on
Coords == (0 .. MaxCoord) \cup {BigCoord}

Points == {Point(x, y) : x \in Coords, y \in Coords}

NoPoint == Point(0, 0)

TriIdle ==
    /\ tri_args = <<NoPoint, NoPoint, NoPoint>>
    /\ try_new_out = NotCalled
    /\ new_out = NotCalled

LineIdle ==
    /\ line_args = <<NoPoint, NoPoint>>
    /\ eq_out = NotCalled

RastIdle ==
    /\ rast_tri = <<NoPoint, NoPoint, NoPoint>>
    /\ fills = <<>>
    /\ data = <<>>
    /\ adjacent = <<>>
    /\ sets = <<>>

DepthIdle ==
    /\ depth_buffer = <<>>
    /\ offered = <<>>
    /\ last_update = NotCalled
    /\ n_updates = 0

ClipIdle ==
    /\ clip_tri = <<>>
    /\ clip_out = NotCalled

CamIdle ==
    /\ cam_point = <<>>
    /\ can_translate_out = NotCalled
    /\ translate_out = NotCalled

IsectIdle ==
    /\ isect_lines = <<>>
    /\ isect_out = NotCalled

ProxyIdle == proxy_offers = <<>>

AdapterIdle ==
    /\ adapter = <<>>
    /\ untranslate_out = NotCalled

Called(v) == [called |-> TRUE, out |-> v]

(***************************************************************************)
(* The Triangle constructors, called on any three points.                  *)
(***************************************************************************)
InitTriangle ==
    /\ overflow_checks \in BOOLEAN
    /\ CamIdle
    /\ IsectIdle
    /\ ProxyIdle
    /\ AdapterIdle
    /\ tri_args \in Points \X Points \X Points
    /\ try_new_out = NotCalled
    /\ new_out = NotCalled
    /\ LineIdle
    /\ RastIdle
    /\ DepthIdle
    /\ ClipIdle

CallTryNew ==
    /\ ~try_new_out.called
    /\ try_new_out' = Called(Outcome(
           Triangle_try_new_st(tri_args[1], tri_args[2], tri_args[3]),
           Triangle_try_new(tri_args[1], tri_args[2], tri_args[3]),
           overflow_checks))
    /\ UNCHANGED <<overflow_checks, tri_args, new_out, lineVars, rastVars, depthVars, clipVars,
                   camVars, isectVars, proxyVars, adapterVars>>

CallNew ==
    /\ ~new_out.called
    /\ new_out' = Called(Outcome(
           Triangle_new_st(tri_args[1], tri_args[2], tri_args[3]),
           Triangle_new(tri_args[1], tri_args[2], tri_args[3]),
           overflow_checks))
    /\ UNCHANGED <<overflow_checks, tri_args, try_new_out, lineVars, rastVars, depthVars, clipVars,
                   camVars, isectVars, proxyVars, adapterVars>>

NextTriangle == CallTryNew \/ CallNew

SpecTriangle == InitTriangle /\ [][NextTriangle]_vars

(***************************************************************************)
(* Line::from_points(p, q) == Line::from_points(q, p), on distinct points. *)
(***************************************************************************)
InitLine ==
    /\ overflow_checks \in BOOLEAN
    /\ CamIdle
    /\ IsectIdle
    /\ ProxyIdle
    /\ AdapterIdle
    /\ line_args \in {pq \in Points \X Points : pq[1] # pq[2]}
    /\ eq_out = NotCalled
    /\ TriIdle
    /\ RastIdle
    /\ DepthIdle
    /\ ClipIdle

CompareLines ==
    /\ ~eq_out.called
    /\ LET p == line_args[1]
           q == line_args[2]
       IN  eq_out' = Called(Outcome(
               StJoin(StJoin(Line_from_points_st(p, q), Line_from_points_st(q, p)),
                      Line_eq_st(Line_from_points(p, q), Line_from_points(q, p))),
               Line_eq(Line_from_points(p, q), Line_from_points(q, p)),
               overflow_checks))
    /\ UNCHANGED <<overflow_checks, line_args, triVars, rastVars, depthVars, clipVars,
                   camVars, isectVars, proxyVars, adapterVars>>

NextLine == CompareLines

SpecLine == InitLine /\ [][NextLine]_vars

(***************************************************************************)
(* Rasterizer::fill_triangle, called on the orderings of the vertices of   *)
(* one valid screen triangle, with a color_func that colors every pixel it *)
(* is offered.                                                             *)
(***************************************************************************)
\* Screen coordinates: on and around the buffer, and far off it.
RastCoords == (-1 .. MaxRastCoord) \cup {BigCoord}

RastPoints == {Point(x, y) : x \in RastCoords, y \in RastCoords}

\* An order on points, to draw each triangle once in the initial states
Before(p, q) == p.x < q.x \/ (p.x = q.x /\ p.y < q.y)

\* A Triangle value exists when its constructor returned it in this build.
Constructible(a, b, c, checks) ==
    /\ ~Stops(Triangle_try_new_st(a, b, c), checks)
    /\ Triangle_try_new(a, b, c).some

\* The buffer as render_frame hands it over: filled with black
BlackBuffer(width, height) == [i \in 1 .. width * height * 4 |-> 0]

FillColor == RGB_new(1, 2, 3)

InitRaster ==
    /\ overflow_checks \in BOOLEAN
    /\ CamIdle
    /\ IsectIdle
    /\ ProxyIdle
    /\ AdapterIdle
    /\ rast_tri \in {t \in RastPoints \X RastPoints \X RastPoints :
                        /\ Before(t[1], t[2])
                        /\ Before(t[2], t[3])
                        /\ Constructible(t[1], t[2], t[3], overflow_checks)}
    /\ fills = <<>>
    /\ data = BlackBuffer(RastWidth, RastHeight)
    /\ adjacent = <<>>
    /\ sets = <<>>
    /\ TriIdle
    /\ LineIdle
    /\ DepthIdle
    /\ ClipIdle

Orderings == {<<1, 2, 3>>, <<1, 3, 2>>, <<2, 1, 3>>, <<2, 3, 1>>, <<3, 1, 2>>, <<3, 2, 1>>}

\* rasterizer.fill_triangle(Triangle::new(a, b, c), &mut |_| Some(FillColor))
FillTriangle(o) ==
    /\ Len(fills) < MaxFills
    /\ Constructible(rast_tri[o[1]], rast_tri[o[2]], rast_tri[o[3]], overflow_checks)
    /\ fills' = Append(fills,
           [tri |-> Triangle(rast_tri[o[1]], rast_tri[o[2]], rast_tri[o[3]]),
            res |-> Rasterizer_fill_triangle(
                        Triangle(rast_tri[o[1]], rast_tri[o[2]], rast_tri[o[3]]),
                        RastWidth, RastHeight, overflow_checks)])
    /\ data' = SetAll(data, RastWidth, fills'[Len(fills')].res.offers, FillColor)
    /\ UNCHANGED <<overflow_checks, rast_tri, adjacent, sets, triVars, lineVars, depthVars, clipVars,
                   camVars, isectVars, proxyVars, adapterVars>>

NextRaster == \E o \in Orderings : FillTriangle(o)

SpecRaster == InitRaster /\ [][NextRaster]_vars

\* One fill_triangle call on a fresh buffer
FillFirstTriangle(o) ==
    /\ Len(fills) = 0
    /\ FillTriangle(o)

NextFirstFill == \E o \in Orderings : FillFirstTriangle(o)

SpecFirstFill == InitRaster /\ [][NextFirstFill]_vars

(***************************************************************************)
(* Two triangles that share the edge p-q, with their third vertices on     *)
(* opposite sides of it, drawn one after the other as render_frame draws   *)
(* the triangles of a scene.  The coordinates are small: no i32 operation  *)
(* overflows here.                                                         *)
(***************************************************************************)
SeamPoints == {Point(x, y) : x \in 0 .. MaxSeamX, y \in 0 .. MaxSeamY}

\* Twice the signed area of (p, q, r), on coordinates that cannot overflow
Cross(p, q, r) == (q.x - p.x) * (r.y - p.y) - (q.y - p.y) * (r.x - p.x)

InitSeam ==
    /\ overflow_checks \in BOOLEAN
    /\ CamIdle
    /\ IsectIdle
    /\ ProxyIdle
    /\ AdapterIdle
    /\ adjacent \in {<<Triangle(p, q, r), Triangle(p, q, s)>> :
                        <<p, q, r, s>> \in
                            {t \in SeamPoints \X SeamPoints \X SeamPoints \X SeamPoints :
                                /\ Before(t[1], t[2])
                                /\ Cross(t[1], t[2], t[3]) > 0
                                /\ Cross(t[1], t[2], t[4]) < 0}}
    /\ fills = <<>>
    /\ data = BlackBuffer(RastWidth, RastHeight)
    /\ rast_tri = <<NoPoint, NoPoint, NoPoint>>
    /\ sets = <<>>
    /\ TriIdle
    /\ LineIdle
    /\ DepthIdle
    /\ ClipIdle

\* rasterizer.fill_triangle(tri, &mut |_| Some(FillColor)) for the next triangle
FillNext ==
    /\ Len(fills) < Len(adjacent)
    /\ \A i \in 1 .. Len(fills) : ~fills[i].res.panicked
    /\ fills' = Append(fills,
           [tri |-> adjacent[Len(fills) + 1],
            res |-> Rasterizer_fill_triangle(adjacent[Len(fills) + 1],
                                             RastWidth, RastHeight, overflow_checks)])
    /\ data' = SetAll(data, RastWidth, fills'[Len(fills')].res.offers, FillColor)
    /\ UNCHANGED <<overflow_checks, rast_tri, adjacent, sets, triVars, lineVars, depthVars, clipVars,
                   camVars, isectVars, proxyVars, adapterVars>>

NextSeam == FillNext

SpecSeam == InitSeam /\ [][NextSeam]_vars

(***************************************************************************)
(* Rasterizer::set, called with any coordinates on and just off the        *)
(* buffer.  A panic ends the program: no call follows it.                  *)
(***************************************************************************)
Colors == {RGB_new(1, 2, 3), RGB_new(4, 5, 6)}

InitSet ==
    /\ overflow_checks \in BOOLEAN
    /\ CamIdle
    /\ IsectIdle
    /\ ProxyIdle
    /\ AdapterIdle
    /\ data = BlackBuffer(RastWidth, RastHeight)
    /\ sets = <<>>
    /\ rast_tri = <<NoPoint, NoPoint, NoPoint>>
    /\ fills = <<>>
    /\ adjacent = <<>>
    /\ TriIdle
    /\ LineIdle
    /\ DepthIdle
    /\ ClipIdle

\* rasterizer.set(x, y, value)
Set(x, y, value) ==
    /\ Len(sets) < MaxSets
    /\ \A i \in 1 .. Len(sets) : ~sets[i].panicked
    /\ sets' = Append(sets, [x |-> x, y |-> y, before |-> data,
                             panicked |-> Rasterizer_set_st(data, RastWidth, x, y) = "panic"])
    /\ data' = IF Rasterizer_set_st(data, RastWidth, x, y) = "panic"
               THEN data
               ELSE Rasterizer_set(data, RastWidth, x, y, value)
    /\ UNCHANGED <<overflow_checks, rast_tri, fills, adjacent, triVars, lineVars, depthVars, clipVars,
                   camVars, isectVars, proxyVars, adapterVars>>

NextSet == \E x \in 0 .. RastWidth, y \in 0 .. RastHeight, value \in Colors : Set(x, y, value)

SpecSet == InitSet /\ [][NextSet]_vars

(***************************************************************************)
(* render.rs: DepthBuffer.  An f32 is a finite value (whole numbers here), *)
(* +infinity or NaN.                                                       *)
(***************************************************************************)
Fin(v) == [cls |-> "fin", v |-> v]

INFINITY == [cls |-> "inf", v |-> 0]

NAN == [cls |-> "nan", v |-> 0]

\* a < b on f32: false when either side is NaN
F32Lt(a, b) ==
    /\ a.cls # "nan"
    /\ b.cls # "nan"
    /\ \/ a.cls = "fin" /\ b.cls = "inf"
       \/ a.cls = "fin" /\ b.cls = "fin" /\ a.v < b.v

\* A buffer that starts at zero instead of +infinity
DepthBuffer_new_zeroed(width, height) ==
    [depth_buffer |-> [i \in 1 .. width * height |-> Fin(0)],
     width |-> width,
     height |-> height]

DepthBuffer_new(width, height) ==
    [depth_buffer |-> [i \in 1 .. width * height |-> INFINITY],
     width |-> width,
     height |-> height]

DepthBuffer_index_at(self, x, y) == y * self.width + x

\* A check of the index against the length of the Vec only
DepthBuffer_index_at_len_checked(self, x, y) ==
    IF DepthBuffer_index_at(self, x, y) < Len(self.depth_buffer)
    THEN Some(DepthBuffer_index_at(self, x, y))
    ELSE None

DepthBuffer_index_at_checked(self, x, y) ==
    IF x < self.width /\ y < self.height
    THEN Some(DepthBuffer_index_at(self, x, y))
    ELSE None

\* An update that also takes a value equal to the stored one
DepthBuffer_try_update_not_strict(self, x, y, value) ==
    LET index == DepthBuffer_index_at_checked(self, x, y)
    IN  IF index.some /\ (value = self.depth_buffer[index.val + 1]
                            \/ F32Lt(value, self.depth_buffer[index.val + 1]))
        THEN [ret |-> TRUE,
              self |-> [self EXCEPT !.depth_buffer[index.val + 1] = value]]
        ELSE [ret |-> FALSE, self |-> self]

\* The value returned and the DepthBuffer after the call
DepthBuffer_try_update(self, x, y, value) ==
    LET index == DepthBuffer_index_at_checked(self, x, y)
    IN  IF index.some /\ F32Lt(value, self.depth_buffer[index.val + 1])
        THEN [ret |-> TRUE,
              self |-> [self EXCEPT !.depth_buffer[index.val + 1] = value]]
        ELSE [ret |-> FALSE, self |-> self]

(***************************************************************************)
(* DepthBuffer::try_update, called with any coordinates on and just off    *)
(* the buffer and any value.                                               *)
(***************************************************************************)
Depths == {Fin(v) : v \in 0 .. MaxDepth} \cup {INFINITY, NAN}

DepthCells == (0 .. DepthWidth - 1) \X (0 .. DepthHeight - 1)

InitDepth ==
    /\ overflow_checks \in BOOLEAN
    /\ CamIdle
    /\ IsectIdle
    /\ ProxyIdle
    /\ AdapterIdle
    /\ depth_buffer = DepthBuffer_new(DepthWidth, DepthHeight)
    /\ offered = [cell \in DepthCells |-> {}]
    /\ last_update = NotCalled
    /\ n_updates = 0
    /\ TriIdle
    /\ LineIdle
    /\ RastIdle
    /\ ClipIdle

\* depth_buffer.try_update(x, y, value)
TryUpdate(x, y, value) ==
    /\ n_updates < MaxUpdates
    /\ n_updates' = n_updates + 1
    /\ last_update' = Called([x |-> x, y |-> y, value |-> value,
                              before |-> depth_buffer,
                              ret |-> DepthBuffer_try_update(depth_buffer, x, y, value).ret])
    /\ depth_buffer' = DepthBuffer_try_update(depth_buffer, x, y, value).self
    /\ offered' = IF <<x, y>> \in DepthCells
                  THEN [offered EXCEPT ![<<x, y>>] = @ \cup {value}]
                  ELSE offered
    /\ UNCHANGED <<overflow_checks, triVars, lineVars, rastVars, clipVars,
                   camVars, isectVars, proxyVars, adapterVars>>

NextDepth == \E x \in 0 .. DepthWidth, y \in 0 .. DepthHeight, value \in Depths : TryUpdate(x, y, value)

SpecDepth == InitDepth /\ [][NextDepth]_vars

(***************************************************************************)
(* render.rs: DepthBufferProxy, the depth-test decorator of a filler.  The *)
(* inner filler is given by what it yields for the point: its depth_of, an *)
(* f64 (a whole number, +infinity or NaN), and its color_at.               *)
(***************************************************************************)
DepthBuffer_try_coords_from_point(self, point) ==
    IF point.x < 0 \/ point.y < 0 \/ ~DepthBuffer_index_at_checked(self, point.x, point.y).some
    THEN None
    ELSE Some(<<point.x, point.y>>)

\* The least whole number that f32, with its 24 bits of mantissa, cannot hold
F32Exact == 16777216

\* `depth as f32`, for whole numbers below 2 * F32Exact: a number that needs 25
\* bits is rounded to the nearest even multiple of 2, ties to the even mantissa.
F64_as_f32(depth) ==
    IF depth.cls # "fin" \/ depth.v < F32Exact \/ depth.v % 2 = 0 THEN depth
    ELSE IF (depth.v \div 2) % 2 = 0 THEN Fin(depth.v - 1)
    ELSE Fin(depth.v + 1)

\* A proxy that tests the depth and does not keep it
DepthBufferProxy_color_at_unrecorded(self, point, inner_depth, inner_color) ==
    LET coords == DepthBuffer_try_coords_from_point(self, point)
    IN  IF ~coords.some
        THEN [ret |-> None, depth_buffer |-> self, asked |-> FALSE]
        ELSE IF DepthBuffer_try_update(self, coords.val[1], coords.val[2],
                                       F64_as_f32(inner_depth)).ret
        THEN [ret |-> inner_color, depth_buffer |-> self, asked |-> TRUE]
        ELSE [ret |-> None, depth_buffer |-> self, asked |-> FALSE]

\* A proxy that asks the inner filler whatever try_update returned
DepthBufferProxy_color_at_ungated(self, point, inner_depth, inner_color) ==
    LET coords == DepthBuffer_try_coords_from_point(self, point)
    IN  IF ~coords.some
        THEN [ret |-> None, depth_buffer |-> self, asked |-> FALSE]
        ELSE [ret |-> inner_color,
              depth_buffer |-> DepthBuffer_try_update(self, coords.val[1], coords.val[2],
                                                      F64_as_f32(inner_depth)).self,
              asked |-> TRUE]

\* What color_at returns, the DepthBuffer after the call, and whether the
\* inner filler's color_at was invoked
DepthBufferProxy_color_at(self, point, inner_depth, inner_color) ==
    LET coords == DepthBuffer_try_coords_from_point(self, point)
    IN  IF ~coords.some
        THEN [ret |-> None, depth_buffer |-> self, asked |-> FALSE]
        ELSE Bind(DepthBuffer_try_update(self, coords.val[1], coords.val[2],
                                         F64_as_f32(inner_depth)),
                  LAMBDA u :
                      IF u.ret
                      THEN [ret |-> inner_color, depth_buffer |-> u.self, asked |-> TRUE]
                      ELSE [ret |-> None, depth_buffer |-> u.self, asked |-> FALSE])

(***************************************************************************)
(* Pixels offered through a DepthBufferProxy, as fill_glued_triangle does  *)
(* for each pixel of a row: color_at, then set when it returned a color.   *)
(* Any point is offered, with any filler.                                  *)
(***************************************************************************)
ProxyDepths == Depths \cup {Fin(F32Exact), Fin(F32Exact + 1)}

ProxyPoints == {Point(x, y) : x \in -1 .. DepthWidth, y \in -1 .. DepthHeight}

InitProxy ==
    /\ overflow_checks \in BOOLEAN
    /\ depth_buffer = DepthBuffer_new(DepthWidth, DepthHeight)
    /\ data = BlackBuffer(DepthWidth, DepthHeight)
    /\ proxy_offers = <<>>
    /\ offered = <<>>
    /\ last_update = NotCalled
    /\ n_updates = 0
    /\ rast_tri = <<NoPoint, NoPoint, NoPoint>>
    /\ fills = <<>>
    /\ adjacent = <<>>
    /\ sets = <<>>
    /\ TriIdle
    /\ LineIdle
    /\ ClipIdle
    /\ CamIdle
    /\ IsectIdle
    /\ AdapterIdle

\* if let Some(color) = proxied.color_at(point) { self.set(x as u32, y as u32, color); }
Offer(point, inner_depth, inner_color) ==
    /\ Len(proxy_offers) < MaxOffers
    /\ proxy_offers' = Append(proxy_offers,
           [point |-> point, depth |-> inner_depth, color |-> inner_color,
            before |-> depth_buffer,
            data_before |-> data,
            res |-> DepthBufferProxy_color_at(depth_buffer, point, inner_depth, inner_color)])
    /\ depth_buffer' = proxy_offers'[Len(proxy_offers')].res.depth_buffer
    /\ data' = IF proxy_offers'[Len(proxy_offers')].res.ret.some
               THEN Rasterizer_set(data, DepthWidth, point.x, point.y,
                                   proxy_offers'[Len(proxy_offers')].res.ret.val)
               ELSE data
    /\ UNCHANGED <<overflow_checks, offered, last_update, n_updates, rast_tri, fills,
                   adjacent, sets, triVars, lineVars, clipVars, camVars, isectVars,
                   adapterVars>>

NextProxy ==
    \E point \in ProxyPoints, inner_depth \in ProxyDepths, inner_color \in {None} \cup {Some(col) : col \in Colors} :
        Offer(point, inner_depth, inner_color)

SpecProxy == InitProxy /\ [][NextProxy]_vars

(***************************************************************************)
(* One pixel visited twice in the draw of one triangle, as the pixels of   *)
(* the split row are: the same point, hence the same depth_of and the same *)
(* inner color_at.  The depth buffer starts as an earlier draw may have    *)
(* left it: fresh, or with one depth stored.                               *)
(***************************************************************************)
InitVisit ==
    /\ overflow_checks \in BOOLEAN
    /\ \E x \in 0 .. DepthWidth, y \in 0 .. DepthHeight, value \in {Fin(v) : v \in 0 .. MaxDepth} :
           depth_buffer = DepthBuffer_try_update(DepthBuffer_new(DepthWidth, DepthHeight),
                                                 x, y, value).self
    /\ data = BlackBuffer(DepthWidth, DepthHeight)
    /\ proxy_offers = <<>>
    /\ offered = <<>>
    /\ last_update = NotCalled
    /\ n_updates = 0
    /\ rast_tri = <<NoPoint, NoPoint, NoPoint>>
    /\ fills = <<>>
    /\ adjacent = <<>>
    /\ sets = <<>>
    /\ TriIdle
    /\ LineIdle
    /\ ClipIdle
    /\ CamIdle
    /\ IsectIdle
    /\ AdapterIdle

FirstVisit(point, inner_depth, inner_color) ==
    /\ Len(proxy_offers) = 0
    /\ Offer(point, inner_depth, inner_color)

SecondVisit ==
    /\ Len(proxy_offers) = 1
    /\ Offer(proxy_offers[1].point, proxy_offers[1].depth, proxy_offers[1].color)

NextVisit ==
    \/ \E point \in ProxyPoints, inner_depth \in ProxyDepths,
          inner_color \in {None} \cup {Some(col) : col \in Colors} :
           FirstVisit(point, inner_depth, inner_color)
    \/ SecondVisit

SpecVisit == InitVisit /\ [][NextVisit]_vars

(***************************************************************************)
(* render.rs: Camera and the clipper, on camera-local points.  An f64      *)
(* coordinate is modelled as an exact rational n / d in lowest terms with  *)
(* d > 0, in units of one thousandth, or as NaN, written 0 / 0; the        *)
(* rounding of f64 and its infinities are left out.                        *)
(***************************************************************************)
RECURSIVE GcdNat(_, _)
GcdNat(m, n) == IF n = 0 THEN m ELSE GcdNat(n, m % n)

Abs(n) == IF n < 0 THEN -n ELSE n

F64NaN == [n |-> 0, d |-> 0]

Rat(n, d) ==
    LET g == GcdNat(Abs(n), Abs(d))
    IN  IF d = 0 THEN F64NaN
        ELSE IF d < 0 THEN [n |-> (-n) \div g, d |-> (-d) \div g]
        ELSE [n |-> n \div g, d |-> d \div g]

Whole(n) == [n |-> n, d |-> 1]

RatSub(p, q) == Rat(p.n * q.d - q.n * p.d, p.d * q.d)

RatMul(p, q) == Rat(p.n * q.n, p.d * q.d)

RatDiv(p, q) == Rat(p.n * q.d, p.d * q.n)

\* p < q on f64: false when either side is NaN, whose d is 0
RatLt(p, q) == p.n * q.d < q.n * p.d

\* p == q on f64: NaN equals nothing
RatEq(p, q) == p.d # 0 /\ q.d # 0 /\ p = q

Point3d(x, y, z) == [x |-> x, y |-> y, z |-> z]

\* The derived PartialEq of BasicPoint3d<f64>
Point3d_eq(p, q) == RatEq(p.x, q.x) /\ RatEq(p.y, q.y) /\ RatEq(p.z, q.z)

\* The 1e-3 of can_translate_point, in thousandths
TranslatableAbove == 1

\* A test against 2e-3
Camera_can_translate_point_above_0_002(adjusted_point) ==
    RatLt(Whole(2), adjusted_point.x)

\* The test of Camera::translate, x > 0.0, in the place of the clipper's
Camera_can_translate_point_above_zero(adjusted_point) ==
    RatLt(Whole(0), adjusted_point.x)

Camera_can_translate_point(adjusted_point) ==
    RatLt(Whole(TranslatableAbove), adjusted_point.x)

\* The segment's translatability, with the point where it meets the plane x = 0
\* when exactly one end can be translated
Camera_can_translate_segment(a, b) ==
    IF Camera_can_translate_point(a) /\ Camera_can_translate_point(b)
    THEN [kind |-> "Translatable"]
    ELSE IF ~Camera_can_translate_point(a) /\ ~Camera_can_translate_point(b)
    THEN [kind |-> "NonTranslatable"]
    ELSE [kind |-> "SemiTranslatable",
          point |-> Point3d(Whole(0),
                            RatDiv(RatSub(RatMul(a.x, b.y), RatMul(a.y, b.x)),
                                   RatSub(a.x, b.x)),
                            RatDiv(RatSub(RatMul(a.x, b.z), RatMul(a.z, b.x)),
                                   RatSub(a.x, b.x)))]

\* Camera::translate panics on a point with x <= 0.0
\* A check that lets x = 0.0 through
Camera_translate_st_negative_only(adjusted_point) ==
    IF RatLt(adjusted_point.x, Whole(0)) THEN "panic" ELSE "ok"

Camera_translate_st(adjusted_point) ==
    IF RatLt(adjusted_point.x, Whole(0)) \/ RatEq(adjusted_point.x, Whole(0))
    THEN "panic" ELSE "ok"

\* The angle between a - self and b - self is below 1e-10: with exact
\* coordinates, the two vectors point the same way.
Point3d_lies_on(self, a, b) ==
    LET ux == RatSub(a.x, self.x)
        uy == RatSub(a.y, self.y)
        uz == RatSub(a.z, self.z)
        vx == RatSub(b.x, self.x)
        vy == RatSub(b.y, self.y)
        vz == RatSub(b.z, self.z)
        dot == RatSub(RatMul(ux, vx),
                      RatSub(RatSub(Whole(0), RatMul(uy, vy)), RatMul(uz, vz)))
    IN  /\ RatMul(uy, vz) = RatMul(uz, vy)
        /\ RatMul(uz, vx) = RatMul(ux, vz)
        /\ RatMul(ux, vy) = RatMul(uy, vx)
        /\ RatLt(Whole(0), dot)

Triangle3d_try_new(a, b, c) ==
    IF Point3d_eq(a, b) \/ Point3d_eq(b, c) \/ Point3d_eq(a, c) THEN None
    ELSE IF Point3d_lies_on(a, b, c) \/ Point3d_lies_on(b, a, c) \/ Point3d_lies_on(c, a, b)
         THEN None
    ELSE Some(Triangle(a, b, c))

Triangle3d_new(a, b, c) == Triangle3d_try_new(a, b, c).val

Triangle3d_new_st(a, b, c) == IF Triangle3d_try_new(a, b, c).some THEN "ok" ELSE "panic"

Segment_from_points_st(a, b) == IF Point3d_eq(a, b) THEN "panic" ELSE "ok"

\* Triangular3d::sort_points with the key |p| p.x
xsort(tri) ==
    LET s1 == IF RatLt(tri.b.x, tri.a.x) THEN <<tri.b, tri.a, tri.c>>
              ELSE <<tri.a, tri.b, tri.c>>
        s2 == IF RatLt(s1[3].x, s1[2].x) THEN <<s1[1], s1[3], s1[2]>> ELSE s1
    IN  IF RatLt(s2[2].x, s2[1].x) THEN <<s2[2], s2[1], s2[3]>> ELSE s2

\* The [Option<Triangle3d>; 2] returned, or a panic: of a constructor, or of
\* unreachable!()
SplitSorted(triangle, a, b, c) ==
    LET bc == Camera_can_translate_segment(b, c)
        ac == Camera_can_translate_segment(a, c)
        ab == Camera_can_translate_segment(a, b)
    IN  IF \/ Segment_from_points_st(a, c) = "panic"
           \/ Segment_from_points_st(a, b) = "panic"
           \/ Segment_from_points_st(b, c) = "panic"
        THEN Panicked
        ELSE IF bc.kind = "Translatable"
        THEN Returned(<<Some(triangle), None>>)
        ELSE IF bc.kind = "SemiTranslatable"
        THEN IF ac.kind = "SemiTranslatable"
             THEN IF \/ Triangle3d_new_st(a, ac.point, bc.point) = "panic"
                     \/ Triangle3d_new_st(a, b, bc.point) = "panic"
                  THEN Panicked
                  ELSE Returned(<<Some(Triangle3d_new(a, ac.point, bc.point)),
                                  Some(Triangle3d_new(a, b, bc.point))>>)
             ELSE Panicked
        ELSE IF ab.kind = "SemiTranslatable" /\ ac.kind = "SemiTranslatable"
        THEN IF Triangle3d_new_st(a, ab.point, ac.point) = "panic"
             THEN Panicked
             ELSE Returned(<<Some(Triangle3d_new(a, ab.point, ac.point)), None>>)
        ELSE IF ab.kind = "NonTranslatable" /\ ac.kind = "NonTranslatable"
        THEN Returned(<<None, None>>)
        ELSE Panicked

Renderer_split_if_necessary(triangle) ==
    Bind(xsort(triangle), LAMBDA s : SplitSorted(triangle, s[1], s[2], s[3]))

\* Whether the match of split_if_necessary ends in one of its unreachable!() arms
UnreachableSorted(a, b, c) ==
    LET bc == Camera_can_translate_segment(b, c)
        ac == Camera_can_translate_segment(a, c)
        ab == Camera_can_translate_segment(a, b)
    IN  /\ Segment_from_points_st(a, c) = "ok"
        /\ Segment_from_points_st(a, b) = "ok"
        /\ Segment_from_points_st(b, c) = "ok"
        /\ \/ bc.kind = "SemiTranslatable" /\ ac.kind # "SemiTranslatable"
           \/ /\ bc.kind = "NonTranslatable"
              /\ ~(ab.kind = "SemiTranslatable" /\ ac.kind = "SemiTranslatable")
              /\ ~(ab.kind = "NonTranslatable" /\ ac.kind = "NonTranslatable")

Renderer_split_if_necessary_unreachable(triangle) ==
    Bind(xsort(triangle), LAMBDA s : UnreachableSorted(s[1], s[2], s[3]))

\* triangles_to_draw.iter().flatten(): the triangles handed, in order, to
\* fill_translatable_triangle, the only code of the draw that touches the
\* pixel buffer and the depth buffer
Flatten(triangles_to_draw) ==
    (IF triangles_to_draw[1].some THEN <<triangles_to_draw[1].val>> ELSE <<>>)
        \o (IF triangles_to_draw[2].some THEN <<triangles_to_draw[2].val>> ELSE <<>>)

(***************************************************************************)
(* Renderer::split_if_necessary, called on any camera-local triangle.      *)
(***************************************************************************)
ClipXs == {Whole(x) : x \in -1 .. MaxClipX} \cup {F64NaN}

ClipPoints ==
    {Point3d(x, Whole(y), Whole(z)) :
        x \in ClipXs, y \in 0 .. MaxClipYZ, z \in 0 .. MaxClipYZ}

InitClip ==
    /\ overflow_checks \in BOOLEAN
    /\ CamIdle
    /\ IsectIdle
    /\ ProxyIdle
    /\ AdapterIdle
    /\ clip_tri \in {Triangle3d_new(t[1], t[2], t[3]) :
                        t \in {u \in ClipPoints \X ClipPoints \X ClipPoints :
                                  Triangle3d_try_new(u[1], u[2], u[3]).some}}
    /\ clip_out = NotCalled
    /\ TriIdle
    /\ LineIdle
    /\ RastIdle
    /\ DepthIdle

\* self.split_if_necessary(triangle)
SplitIfNecessary ==
    /\ ~clip_out.called
    /\ clip_out' = [called |-> TRUE,
                    out |-> Renderer_split_if_necessary(clip_tri),
                    unreachable |-> Renderer_split_if_necessary_unreachable(clip_tri)]
    /\ UNCHANGED <<overflow_checks, clip_tri, triVars, lineVars, rastVars, depthVars,
                   camVars, isectVars, proxyVars, adapterVars>>

NextClip == SplitIfNecessary

SpecClip == InitClip /\ [][NextClip]_vars

(***************************************************************************)
(* Camera::can_translate_point and Camera::translate, called on any        *)
(* camera-local point.  What translate returns for a point it accepts is   *)
(* floating-point trigonometry, left uninterpreted.                        *)
(***************************************************************************)
InitCamera ==
    /\ overflow_checks \in BOOLEAN
    /\ cam_point \in ClipPoints
    /\ can_translate_out = NotCalled
    /\ translate_out = NotCalled
    /\ TriIdle
    /\ LineIdle
    /\ RastIdle
    /\ DepthIdle
    /\ ClipIdle
    /\ IsectIdle
    /\ ProxyIdle
    /\ AdapterIdle

\* self.camera.can_translate_point(cam_point)
CanTranslatePoint ==
    /\ ~can_translate_out.called
    /\ can_translate_out' = Called(Returned(Camera_can_translate_point(cam_point)))
    /\ UNCHANGED <<overflow_checks, cam_point, translate_out, triVars, lineVars, rastVars,
                   depthVars, clipVars, isectVars, proxyVars, adapterVars>>

\* self.camera.translate(cam_point)
Translate ==
    /\ ~translate_out.called
    /\ translate_out' = Called(IF Camera_translate_st(cam_point) = "panic"
                               THEN Panicked
                               ELSE Returned([translated |-> cam_point]))
    /\ UNCHANGED <<overflow_checks, cam_point, can_translate_out, triVars, lineVars,
                   rastVars, depthVars, clipVars, isectVars, proxyVars, adapterVars>>

NextCamera == CanTranslatePoint \/ Translate

SpecCamera == InitCamera /\ [][NextCamera]_vars

(***************************************************************************)
(* Line::intersect, called on two lines that are not parallel, each built  *)
(* by Line::horizontal or Line::from_points.                               *)
(***************************************************************************)
IsectCoords == (0 .. MaxIsectCoord) \cup {BigCoord}

IsectPoints == {Point(x, y) : x \in IsectCoords, y \in IsectCoords}

\* The lines the constructors return in this build
IsectLines(checks) ==
    {Line_horizontal(y) : y \in {v \in IsectCoords : ~Stops(Line_horizontal_st(v), checks)}}
        \cup {Line_from_points(pq[1], pq[2]) :
                 pq \in {t \in IsectPoints \X IsectPoints :
                            ~Stops(Line_from_points_st(t[1], t[2]), checks)}}

\* a1 * b2 = a2 * b1, exactly
Parallel(l1, l2) ==
    WideSign(WideSub(WideMul(l1.a, l2.b), WideMul(l2.a, l1.b))) = 0

InitIntersect ==
    /\ overflow_checks \in BOOLEAN
    /\ isect_lines \in {ll \in IsectLines(overflow_checks) \X IsectLines(overflow_checks) :
                           ~Parallel(ll[1], ll[2])}
    /\ isect_out = NotCalled
    /\ TriIdle
    /\ LineIdle
    /\ RastIdle
    /\ DepthIdle
    /\ ClipIdle
    /\ CamIdle
    /\ ProxyIdle
    /\ AdapterIdle

\* isect_lines[1].intersect(isect_lines[2])
Intersect ==
    /\ ~isect_out.called
    /\ isect_out' = Called(Outcome(Line_intersect_st(isect_lines[1], isect_lines[2]),
                                   Line_intersect(isect_lines[1], isect_lines[2]),
                                   overflow_checks))
    /\ UNCHANGED <<overflow_checks, isect_lines, triVars, lineVars, rastVars, depthVars,
                   clipVars, camVars, proxyVars, adapterVars>>

NextIntersect == Intersect

SpecIntersect == InitIntersect /\ [][NextIntersect]_vars

(***************************************************************************)
(* Exact geometry, in which the properties are stated.                     *)
(***************************************************************************)
\* The sign of the cross product (q - p) x (r - p): 0 iff p, q, r are collinear.
Orient(p, q, r) ==
    WideSign(WideSub(WideMul(q.x - p.x, r.y - p.y), WideMul(q.y - p.y, r.x - p.x)))

Degenerate(a, b, c) == a = b \/ b = c \/ a = c \/ Orient(a, b, c) = 0

\* C5: Triangle::try_new(a, b, c) returns None, without panicking, when two of
\* the points coincide or the three are collinear, and the triangle (a, b, c)
\* otherwise; Triangle::new panics exactly when try_new returns None.
C5_TryNewDecidesValidity ==
    LET a == tri_args[1]
        b == tri_args[2]
        c == tri_args[3]
    IN  /\ try_new_out.called =>
              /\ ~try_new_out.out.panicked
              /\ try_new_out.out.ret =
                     (IF Degenerate(a, b, c) THEN None ELSE Some(Triangle(a, b, c)))
        /\ (try_new_out.called /\ new_out.called /\ ~try_new_out.out.panicked) =>
              (new_out.out.panicked <=> try_new_out.out.ret = None)

\* C6: for distinct p, q the comparison from_points(p, q) == from_points(q, p)
\* completes and yields true.
C6_LineEqOrientationIndependent ==
    eq_out.called => (~eq_out.out.panicked /\ eq_out.out.ret = TRUE)

\* The closed triangle: p is on no edge's far side.
Covers(tri, p) ==
    LET o1 == Orient(tri.a, tri.b, p)
        o2 == Orient(tri.b, tri.c, p)
        o3 == Orient(tri.c, tri.a, p)
    IN  ~((o1 > 0 \/ o2 > 0 \/ o3 > 0) /\ (o1 < 0 \/ o2 < 0 \/ o3 < 0))

InBuffer(width, height) == {Point(x, y) : x \in 0 .. width - 1, y \in 0 .. height - 1}

PixelSet(offers) == {offers[k] : k \in 1 .. Len(offers)}

\* C7: the calls of fill_triangle on the orderings of one triangle's vertices
\* all complete and offer the same set of pixels.
C7_OrderingsOfferSamePixels ==
    \A i, j \in 1 .. Len(fills) :
        /\ ~fills[i].res.panicked
        /\ PixelSet(fills[i].res.offers) = PixelSet(fills[j].res.offers)

\* C8: fill_triangle completes and offers exactly the pixels of the buffer that
\* lie inside or on the boundary of the triangle.
C8_OffersExactlyCoveredPixels ==
    \A i \in 1 .. Len(fills) :
        /\ ~fills[i].res.panicked
        /\ PixelSet(fills[i].res.offers) =
               {p \in InBuffer(RastWidth, RastHeight) : Covers(fills[i].tri, p)}

\* C9: when two triangles that share an edge, with their third vertices on
\* opposite sides of it, have both been drawn, every pixel of the buffer that
\* lies in the closed union of the two has been offered by one of the calls.
C9_SharedEdgeUnionCovered ==
    Len(adjacent) = 2 /\ Len(fills) = 2 =>
        \A p \in InBuffer(RastWidth, RastHeight) :
            (Covers(adjacent[1], p) \/ Covers(adjacent[2], p)) =>
                p \in PixelSet(fills[1].res.offers) \cup PixelSet(fills[2].res.offers)

\* C10: a set call with x >= width or y >= height does not panic and leaves
\* every byte of the buffer as it was.
C10_SetOutOfRangeIsNoOp ==
    \A i \in 1 .. Len(sets) :
        (sets[i].x >= RastWidth \/ sets[i].y >= RastHeight) =>
            /\ ~sets[i].panicked
            /\ (IF i < Len(sets) THEN sets[i + 1].before ELSE data) = sets[i].before

\* The value held for the cell at column x of row y
CellAt(db, x, y) == db.depth_buffer[y * db.width + x + 1]

\* The least of a set of f32 values that has a non-NaN member, NaN set aside
F32Min(S) == CHOOSE m \in S : m.cls # "nan" /\ \A v \in S : ~F32Lt(v, m)

\* C2: try_update(x, y, value) returns true exactly when (x, y) is in bounds
\* and value is strictly less than the value stored at (x, y) before the call,
\* and then value is what the cell holds after it.
C2_TryUpdateTrueIffInBoundsAndLess ==
    last_update.called =>
        LET u == last_update.out
            inb == u.x < DepthWidth /\ u.y < DepthHeight
        IN  /\ u.ret <=> (inb /\ F32Lt(u.value, CellAt(u.before, u.x, u.y)))
            /\ u.ret => CellAt(depth_buffer, u.x, u.y) = u.value

C2_SecondSmallerOfferStored ==
    /\ last_update.called
    /\ n_updates >= 2
    /\ last_update.out.ret
    /\ CellAt(last_update.out.before, last_update.out.x, last_update.out.y).cls = "fin"

\* C3: a try_update call that returns false leaves every cell as it was, one
\* that returns true changes no cell but the one at (x, y), and a call with
\* an out-of-bounds coordinate returns false; the dimensions never change.
C3_TryUpdateFrame ==
    last_update.called =>
        LET u == last_update.out
        IN  /\ depth_buffer.width = u.before.width
            /\ depth_buffer.height = u.before.height
            /\ Len(depth_buffer.depth_buffer) = Len(u.before.depth_buffer)
            /\ (u.x >= DepthWidth \/ u.y >= DepthHeight) => ~u.ret
            /\ \A cell \in DepthCells :
                   (~u.ret \/ cell # <<u.x, u.y>>) =>
                       CellAt(depth_buffer, cell[1], cell[2]) =
                           CellAt(u.before, cell[1], cell[2])

\* An x = width whose unchecked index is the first cell of the next row, which
\* holds a larger value than the one offered
C3_NextRowNotAliased ==
    /\ last_update.called
    /\ last_update.out.x = DepthWidth
    /\ last_update.out.y + 1 < DepthHeight
    /\ F32Lt(last_update.out.value, CellAt(last_update.out.before, 0, last_update.out.y + 1))
    /\ ~last_update.out.ret

\* C4: a new DepthBuffer holds +infinity in its width * height cells; after any
\* calls each cell holds the least of +infinity and the values offered at its
\* coordinate, and no call leaves a cell with a larger value than before.
C4_CellsHoldMinimumOffered ==
    /\ Len(depth_buffer.depth_buffer) = DepthWidth * DepthHeight
    /\ n_updates = 0 => \A i \in 1 .. Len(depth_buffer.depth_buffer) :
                            depth_buffer.depth_buffer[i] = INFINITY
    /\ \A cell \in DepthCells :
           CellAt(depth_buffer, cell[1], cell[2]) = F32Min(offered[cell] \cup {INFINITY})
    /\ last_update.called =>
           \A cell \in DepthCells :
               ~F32Lt(CellAt(last_update.out.before, cell[1], cell[2]),
                      CellAt(depth_buffer, cell[1], cell[2]))

C4_SeveralOffersAtOneCell ==
    /\ n_updates = MaxUpdates
    /\ \E cell \in DepthCells :
           \E v, w \in offered[cell] :
               /\ w.cls = "fin"
               /\ F32Lt(v, w)
               /\ CellAt(depth_buffer, cell[1], cell[2]) = v

\* C1: every vertex of every triangle that split_if_necessary returns has
\* x > 0, so that Camera::translate does not panic on it.
C1_ClipperOutputsInFront ==
    (clip_out.called /\ ~clip_out.out.panicked) =>
        \A k \in 1 .. 2 :
            clip_out.out.ret[k].some =>
                \A v \in {clip_out.out.ret[k].val.a,
                          clip_out.out.ret[k].val.b,
                          clip_out.out.ret[k].val.c} :
                    /\ RatLt(Whole(0), v.x)
                    /\ Camera_translate_st(v) = "ok"

(***************************************************************************)
(* render.rs: CoordsTranslationAdapter, the recovery of the 3D point of a  *)
(* screen pixel.  The integer part (the vertex tests, the two lines and    *)
(* their intersection) is computed; the floating-point part,               *)
(* linear_untranslate, is kept as the term of its arguments, which no      *)
(* vertex equals.                                                          *)
(***************************************************************************)
linear_untranslate(p, a, b) == [linear_untranslate |-> <<p, a, b>>]

\* bilinear_untranslate with the test against triangle_on_screen.c left out
CoordsTranslationAdapter_bilinear_untranslate_two_fast_paths(self, point_on_screen) ==
    IF point_on_screen = self.triangle_on_screen.a THEN self.triangle.a
    ELSE IF point_on_screen = self.triangle_on_screen.b THEN self.triangle.b
    ELSE LET base_line == Line_from_points(self.triangle_on_screen.b, self.triangle_on_screen.c)
             pivot_line == Line_from_points(self.triangle_on_screen.a, point_on_screen)
             pivot_point == Line_intersect(base_line, pivot_line)
             pivot_point_3d == linear_untranslate(pivot_point,
                                   <<self.triangle_on_screen.b, self.triangle.b>>,
                                   <<self.triangle_on_screen.c, self.triangle.c>>)
         IN  IF point_on_screen = pivot_point THEN pivot_point_3d
             ELSE linear_untranslate(point_on_screen,
                      <<self.triangle_on_screen.a, self.triangle.a>>,
                      <<pivot_point, pivot_point_3d>>)

CoordsTranslationAdapter_bilinear_untranslate(self, point_on_screen) ==
    IF point_on_screen = self.triangle_on_screen.a THEN self.triangle.a
    ELSE IF point_on_screen = self.triangle_on_screen.b THEN self.triangle.b
    ELSE IF point_on_screen = self.triangle_on_screen.c THEN self.triangle.c
    ELSE LET base_line == Line_from_points(self.triangle_on_screen.b, self.triangle_on_screen.c)
             pivot_line == Line_from_points(self.triangle_on_screen.a, point_on_screen)
             pivot_point == Line_intersect(base_line, pivot_line)
             pivot_point_3d == linear_untranslate(pivot_point,
                                   <<self.triangle_on_screen.b, self.triangle.b>>,
                                   <<self.triangle_on_screen.c, self.triangle.c>>)
         IN  IF point_on_screen = pivot_point THEN pivot_point_3d
             ELSE linear_untranslate(point_on_screen,
                      <<self.triangle_on_screen.a, self.triangle.a>>,
                      <<pivot_point, pivot_point_3d>>)

\* The panics and overflows of the integer part
CoordsTranslationAdapter_bilinear_untranslate_st(self, point_on_screen) ==
    IF \/ point_on_screen = self.triangle_on_screen.a
       \/ point_on_screen = self.triangle_on_screen.b
       \/ point_on_screen = self.triangle_on_screen.c
    THEN "ok"
    ELSE StJoin(Line_from_points_st(self.triangle_on_screen.b, self.triangle_on_screen.c),
           StJoin(Line_from_points_st(self.triangle_on_screen.a, point_on_screen),
                  Line_intersect_st(
                      Line_from_points(self.triangle_on_screen.b, self.triangle_on_screen.c),
                      Line_from_points(self.triangle_on_screen.a, point_on_screen))))

(***************************************************************************)
(* One adapter, built by fill_translatable_triangle for a screen triangle  *)
(* that Triangle::try_new accepted and the triangle it is the image of,    *)
(* asked for the 3D point of one pixel.                                    *)
(***************************************************************************)
AdapterPoints == {Point(x, y) : x \in 0 .. MaxAdapterCoord, y \in 0 .. MaxAdapterCoord}

\* A point in front of the camera, at depth x, that is seen at p
Lift(p, depth) == Point3d(Whole(depth), Whole(p.x), Whole(p.y))

InitAdapter ==
    /\ overflow_checks \in BOOLEAN
    /\ \E a \in AdapterPoints, b \in AdapterPoints, c \in AdapterPoints,
          da \in 1 .. MaxAdapterDepth, dbc \in 1 .. MaxAdapterDepth :
           /\ ~Stops(Triangle_try_new_st(a, b, c), overflow_checks)
           /\ Triangle_try_new(a, b, c).some
           /\ adapter = [triangle |-> Triangle(Lift(a, da), Lift(b, dbc), Lift(c, dbc)),
                         triangle_on_screen |-> Triangle_try_new(a, b, c).val]
    /\ untranslate_out = NotCalled
    /\ TriIdle
    /\ LineIdle
    /\ RastIdle
    /\ DepthIdle
    /\ ClipIdle
    /\ CamIdle
    /\ IsectIdle
    /\ ProxyIdle

BilinearUntranslate(point_on_screen) ==
    /\ ~untranslate_out.called
    /\ untranslate_out' = Called(
           [point_on_screen |-> point_on_screen,
            res |-> Outcome(CoordsTranslationAdapter_bilinear_untranslate_st(adapter, point_on_screen),
                            CoordsTranslationAdapter_bilinear_untranslate(adapter, point_on_screen),
                            overflow_checks)])
    /\ UNCHANGED <<overflow_checks, adapter, triVars, lineVars, rastVars, depthVars,
                   clipVars, camVars, isectVars, proxyVars>>

NextAdapter == \E point_on_screen \in AdapterPoints : BilinearUntranslate(point_on_screen)

SpecAdapter == InitAdapter /\ [][NextAdapter]_vars

(***************************************************************************)
(* fill_translatable_triangle: the rasterizer offers the pixels of the     *)
(* screen triangle to the proxied adapter, which recovers the 3D point of  *)
(* each offered pixel (depth_of) before anything else.  A pixel is reached *)
(* when no earlier one panicked.  The buffer is as wide and as high as the *)
(* screen coordinates go; the colors written are not followed here.        *)
(***************************************************************************)
RasterizeScreenTriangle ==
    /\ Len(fills) = 0
    /\ fills' = <<[tri |-> adapter.triangle_on_screen,
                   res |-> Rasterizer_fill_triangle(adapter.triangle_on_screen,
                               MaxAdapterCoord + 1, MaxAdapterCoord + 1, overflow_checks)]>>
    /\ UNCHANGED <<overflow_checks, rast_tri, data, adjacent, sets, triVars, lineVars,
                   depthVars, clipVars, camVars, isectVars, proxyVars, adapterVars>>

CoordsOfOffered(k) ==
    /\ Len(fills) = 1
    /\ ~untranslate_out.called
    /\ k \in 1 .. Len(fills[1].res.offers)
    /\ \A j \in 1 .. k - 1 :
           ~Stops(CoordsTranslationAdapter_bilinear_untranslate_st(adapter, fills[1].res.offers[j]),
                  overflow_checks)
    /\ BilinearUntranslate(fills[1].res.offers[k])

NextRecover ==
    \/ RasterizeScreenTriangle
    \/ \E k \in 1 .. (MaxAdapterCoord + 1) * (MaxAdapterCoord + 1) * 2 : CoordsOfOffered(k)

SpecRecover == InitAdapter /\ [][NextRecover]_vars

Vertices(tri) == {tri.a, tri.b, tri.c}

\* x > 1e-3, on the exact coordinate
StrictlyAboveEps(v) == v.x.d # 0 /\ v.x.n > TranslatableAbove * v.x.d

\* C11: when all three vertices of the triangle have x > 1e-3,
\* split_if_necessary returns one triangle, the input triangle itself.
C11_AllTranslatableReturnedUnchanged ==
    (clip_out.called /\ \A v \in Vertices(clip_tri) : StrictlyAboveEps(v)) =>
        /\ ~clip_out.out.panicked
        /\ clip_out.out.ret = <<Some(clip_tri), None>>

C11_AllTranslatableSplit ==
    /\ clip_out.called
    /\ \A v \in Vertices(clip_tri) : StrictlyAboveEps(v)
    /\ \E v, w \in Vertices(clip_tri) : RatLt(v.x, w.x)

\* C12: when no vertex of the triangle has x > 1e-3, split_if_necessary
\* returns no triangle, so the draw hands nothing to
\* fill_translatable_triangle.
C12_NoneTranslatableReturnsNothing ==
    (clip_out.called /\ \A v \in Vertices(clip_tri) : ~StrictlyAboveEps(v)) =>
        /\ ~clip_out.out.panicked
        /\ clip_out.out.ret = <<None, None>>
        /\ Flatten(clip_out.out.ret) = <<>>

\* No vertex translatable, one of them exactly at x = 1e-3
C12_NoneTranslatableSplit ==
    /\ clip_out.called
    /\ \A v \in Vertices(clip_tri) : ~StrictlyAboveEps(v)
    /\ \E v \in Vertices(clip_tri) : v.x = Whole(TranslatableAbove)

\* C13: for a triangle with a translatable vertex and a vertex that is not,
\* split_if_necessary returns two triangles.
C13_StraddlingReturnsTwo ==
    (/\ clip_out.called
     /\ \E v \in Vertices(clip_tri) : StrictlyAboveEps(v)
     /\ \E v \in Vertices(clip_tri) : ~StrictlyAboveEps(v)) =>
        /\ ~clip_out.out.panicked
        /\ clip_out.out.ret[1].some
        /\ clip_out.out.ret[2].some

\* C19: split_if_necessary never ends in one of its unreachable!() arms.
C19_UnreachableNeverReached ==
    clip_out.called => ~clip_out.unreachable

\* C17: Camera::translate panics on every point with x <= 0, and does not
\* panic on a point that can_translate_point accepts.
C17_TranslatePrecondition ==
    /\ (translate_out.called /\ cam_point.x.d # 0 /\ cam_point.x.n <= 0) =>
           translate_out.out.panicked
    /\ (translate_out.called /\ can_translate_out.called /\ can_translate_out.out.ret) =>
           ~translate_out.out.panicked

\* translate called at the boundary x = 0.0, which the clipper's test turns down
C17_TranslatePanicsAtZero ==
    /\ translate_out.called
    /\ can_translate_out.called
    /\ cam_point.x = Whole(0)
    /\ translate_out.out.panicked
    /\ ~can_translate_out.out.ret

\* The quotient n / d rounded toward zero, d # 0
TruncDiv(n, d) ==
    IF (n >= 0) = (d > 0) THEN Abs(n) \div Abs(d) ELSE -(Abs(n) \div Abs(d))

\* C18: for two lines that are not parallel, Line::intersect computes its two
\* numerators and its denominator without leaving i32, and returns the exact
\* intersection, each coordinate rounded toward zero.
C18_IntersectExactWithoutOverflow ==
    isect_out.called =>
        LET l1 == isect_lines[1]
            l2 == isect_lines[2]
        IN  /\ Line_intersect_st(l1, l2) = "ok"
            /\ ~isect_out.out.panicked
            /\ isect_out.out.ret =
                   Point(TruncDiv(l1.c * l2.b - l1.b * l2.c, l1.b * l2.a - l1.a * l2.b),
                         TruncDiv(l1.a * l2.c - l1.c * l2.a, l1.b * l2.a - l1.a * l2.b))

\* C20: every pixel (x, y) that a fill_triangle call offers, and so hands to
\* Rasterizer::set, has 0 <= x < width and 0 <= y < height, and set's indices
\* for it are inside the buffer.
C20_OfferedPixelsInBuffer ==
    \A i \in 1 .. Len(fills) :
        \A k \in 1 .. Len(fills[i].res.offers) :
            LET p == fills[i].res.offers[k]
            IN  /\ 0 <= p.x /\ p.x < RastWidth
                /\ 0 <= p.y /\ p.y < RastHeight
                /\ Rasterizer_set_st(data, RastWidth, p.x, p.y) = "ok"

\* A fill that offered pixels for a triangle with a vertex left of and above
\* the buffer and a vertex far beyond it
C20_PartlyOutsideTriangleFilled ==
    \E i \in 1 .. Len(fills) :
        /\ Len(fills[i].res.offers) > 0
        /\ \E v \in Vertices(fills[i].tri) : v.x < 0 /\ v.y < 0
        /\ \E v \in Vertices(fills[i].tri) : v.x >= RastWidth /\ v.y >= RastHeight

\* The DepthBuffer as offer i left it
DepthAfterOffer(i) ==
    IF i < Len(proxy_offers) THEN proxy_offers[i + 1].before ELSE depth_buffer

\* The color held by the bytes of pixel (x, y)
PixelColor(buf, width, x, y) ==
    [b |-> buf[Rasterizer_index_at(width, x, y, 0) + 1],
     g |-> buf[Rasterizer_index_at(width, x, y, 1) + 1],
     r |-> buf[Rasterizer_index_at(width, x, y, 2) + 1]]

\* The offers of a pixel that supply a color and a depth that is a number
DrawsAt(cell) ==
    {i \in 1 .. Len(proxy_offers) :
        /\ proxy_offers[i].point = Point(cell[1], cell[2])
        /\ proxy_offers[i].color.some
        /\ proxy_offers[i].depth.cls # "nan"}

\* C14: the color written at an in-bounds pixel is the color supplied by the
\* offer with the smallest depth, the earliest among offers of equal depth
\* (offers that yield no color supply none).
C14_SmallestDepthColorWins ==
    \A cell \in DepthCells :
        DrawsAt(cell) # {} =>
            LET best == CHOOSE i \in DrawsAt(cell) :
                            \A j \in DrawsAt(cell) :
                                /\ ~F32Lt(proxy_offers[j].depth, proxy_offers[i].depth)
                                /\ (j < i => F32Lt(proxy_offers[i].depth, proxy_offers[j].depth))
            IN  PixelColor(data, DepthWidth, cell[1], cell[2]) = proxy_offers[best].color.val

\* C15: an offer for which the inner filler yields no color leaves the depth
\* buffer as it was.
C15_DeclinedPixelLeavesDepth ==
    \A i \in 1 .. Len(proxy_offers) :
        ~proxy_offers[i].color.some => DepthAfterOffer(i) = proxy_offers[i].before

\* C16: the coordinate recovery of a pixel that equals a vertex of the screen
\* triangle returns, without a panic, exactly the corresponding vertex of the
\* triangle being drawn, and not the result of an intersection.
C16_VertexPixelReturnsVertex ==
    untranslate_out.called =>
        LET p == untranslate_out.out.point_on_screen
            res == untranslate_out.out.res
        IN  /\ p = adapter.triangle_on_screen.a => res = Returned(adapter.triangle.a)
            /\ p = adapter.triangle_on_screen.b => res = Returned(adapter.triangle.b)
            /\ p = adapter.triangle_on_screen.c => res = Returned(adapter.triangle.c)

C16_ThirdVertexRecovered ==
    /\ untranslate_out.called
    /\ untranslate_out.out.point_on_screen = adapter.triangle_on_screen.c
    /\ untranslate_out.out.res = Returned(adapter.triangle.c)
    /\ adapter.triangle.c # adapter.triangle.a
    /\ adapter.triangle.c # adapter.triangle.b

\* The pixel buffer as offer i left it
DataAfterOffer(i) ==
    IF i < Len(proxy_offers) THEN proxy_offers[i + 1].data_before ELSE data

\* Whether try_update returns true in offer i: the point is a pixel of the
\* buffer and the depth, as an f32, is strictly less than the stored one
PassesDepthTest(i) ==
    LET o == proxy_offers[i]
    IN  /\ 0 <= o.point.x /\ o.point.x < DepthWidth
        /\ 0 <= o.point.y /\ o.point.y < DepthHeight
        /\ F32Lt(F64_as_f32(o.depth), CellAt(o.before, o.point.x, o.point.y))

\* C21: color_at asks the inner filler, and returns a color, only when
\* try_update returned true in the call; for a point outside the buffer or a
\* depth not strictly smaller than the stored one it returns no color and the
\* pixel buffer is not written.
C21_ColorOnlyAfterDepthTest ==
    \A i \in 1 .. Len(proxy_offers) :
        /\ proxy_offers[i].res.asked <=> PassesDepthTest(i)
        /\ proxy_offers[i].res.ret.some => PassesDepthTest(i)
        /\ ~PassesDepthTest(i) =>
               /\ proxy_offers[i].res.ret = None
               /\ DataAfterOffer(i) = proxy_offers[i].data_before

C21_FartherOfferTurnedDown ==
    \E i \in 1 .. Len(proxy_offers) :
        LET o == proxy_offers[i]
        IN  /\ o.color.some
            /\ o.point \in InBuffer(DepthWidth, DepthHeight)
            /\ o.depth.cls = "fin"
            /\ CellAt(o.before, o.point.x, o.point.y).cls = "fin"
            /\ CellAt(o.before, o.point.x, o.point.y).v < o.depth.v
            /\ o.res.ret = None

\* C23: when a pixel is offered a second time with the same depth, the second
\* color_at returns no color and does not ask the inner filler, and the depth
\* buffer and the pixel buffer stay as the first visit left them.
C23_RepeatVisitIdempotent ==
    Len(proxy_offers) = 2 =>
        /\ proxy_offers[2].res.ret = None
        /\ ~proxy_offers[2].res.asked
        /\ depth_buffer = proxy_offers[2].before
        /\ data = proxy_offers[2].data_before

C23_DrawnPixelRevisited ==
    /\ Len(proxy_offers) = 2
    /\ proxy_offers[1].res.ret.some
    /\ proxy_offers[1].res.asked
    /\ PixelColor(data, DepthWidth, proxy_offers[1].point.x, proxy_offers[1].point.y)
           = proxy_offers[1].res.ret.val

\* How many times the callback was invoked for pixel p
Invocations(offers, p) == Cardinality({k \in 1 .. Len(offers) : offers[k] = p})

\* The row of the middle-y vertex, on which fill_triangle splits
SplitRow(tri) == ysort(tri)[2].y

\* Both GluedTriangle::try_new calls return a triangle: neither free point
\* lies on the split row
BothHalvesDrawn(tri) ==
    /\ ysort(tri)[1].y # SplitRow(tri)
    /\ ysort(tri)[3].y # SplitRow(tri)

\* C22: in one fill_triangle call, a pixel of the split row is offered twice
\* when both glued halves are non-degenerate (each half offers the same pixels
\* of that row), and every other offered pixel is offered once.
C22_SplitRowTwiceOthersOnce ==
    \A i \in 1 .. Len(fills) :
        \A p \in PixelSet(fills[i].res.offers) :
            Invocations(fills[i].res.offers, p) =
                IF p.y = SplitRow(fills[i].tri) /\ BothHalvesDrawn(fills[i].tri) THEN 2 ELSE 1

\* C24: fill_triangle on a valid triangle completes without a panic (the
\* split point is on the row of the middle vertex, no line is built from
\* coinciding points, no intersection divides by zero), and at least one of
\* the two glued halves is drawn.
C24_FillTriangleCompletes ==
    \A i \in 1 .. Len(fills) :
        /\ ~fills[i].res.panicked
        /\ \/ ysort(fills[i].tri)[1].y # SplitRow(fills[i].tri)
           \/ ysort(fills[i].tri)[3].y # SplitRow(fills[i].tri)

\* C25: for a pixel that fill_triangle offers for the screen triangle and that
\* is none of its vertices, the line from vertex a through the pixel is not
\* parallel to the line b-c, and the intersection in bilinear_untranslate
\* does not divide by zero.
C25_PivotLineMeetsBaseLine ==
    (untranslate_out.called /\ Len(fills) = 1) =>
        LET tos == adapter.triangle_on_screen
            p == untranslate_out.out.point_on_screen
        IN  p \notin Vertices(tos) =>
                /\ ~Parallel(Line_from_points(tos.b, tos.c), Line_from_points(tos.a, p))
                /\ untranslate_out.out.res # Panicked

====
